---- MODULE Spec2Model ----
(***************************************************************************)
(* Model of src/preprocess_data.py (chessee): the streaming Decoder        *)
(* read_zst_file_streaming, the record parser parse_pgn_game with its      *)
(* move tokenizer parse_moves, and the rating filter                       *)
(* filter_games_by_rating.                                                 *)
(*                                                                         *)
(* Python strings are modelled as sequences of one-character strings, so   *)
(* that slicing, strip, split, replace and removeprefix are computed the   *)
(* way Python computes them.                                               *)
(***************************************************************************)
EXTENDS Integers, Sequences, FiniteSets, TLC

VARIABLES
    archive,      \* the decompressed text of the .zst file, as text_reader's lines
    max_lines,    \* the cap handed to read_zst_file_streaming
    pulled,       \* lines text_reader has handed to the Decoder's for loop
    gen,          \* the generator: "created", "suspended" (at yield), "finished"
    lines,        \* parse_pgn_game: the list built by list(lines)
    pc,           \* position of main/parse_pgn_game: idle, list, loop, done, error
    i,            \* parse_pgn_game: the loop index
    game_data,    \* parse_pgn_game: the records appended so far
    parsed_data,  \* main: the value parse_pgn_game returned
    verdict,      \* the last call of filter_games_by_rating and its outcome
    moves_call    \* the last call of parse_moves and its outcome

vars == <<archive, max_lines, pulled, gen, lines, pc, i, game_data,
          parsed_data, verdict, moves_call>>

(***************************************************************************)
(* Bounds of the model.                                                    *)
(***************************************************************************)
\* caps 0..MaxCap are explored, besides the cap main passes
MaxCap == 42
\* move-list lines of 1..MaxPlies marked moves are explored
MaxPlies == 3

(***************************************************************************)
(* Python string operations.                                               *)
(***************************************************************************)
Whitespace == {" ", "\t", "\n", "\r"}

RECURSIVE LStripSet(_, _)
LStripSet(s, cs) ==
    IF s # <<>> /\ Head(s) \in cs THEN LStripSet(Tail(s), cs) ELSE s

RECURSIVE RStripSet(_, _)
RStripSet(s, cs) ==
    IF s # <<>> /\ s[Len(s)] \in cs
    THEN RStripSet(SubSeq(s, 1, Len(s) - 1), cs)
    ELSE s

\* str.strip()
Strip(s) == LStripSet(RStripSet(s, Whitespace), Whitespace)

\* str.replace(c, "") for a one-character c
RemoveAll(s, c) == SelectSeq(s, LAMBDA x : x # c)

\* str.removeprefix(p)
RemovePrefix(s, p) ==
    IF Len(s) >= Len(p) /\ SubSeq(s, 1, Len(p)) = p
    THEN SubSeq(s, Len(p) + 1, Len(s))
    ELSE s

\* str.split(c) for a one-character separator: always at least one piece
RECURSIVE SplitFrom(_, _, _)
SplitFrom(s, c, cur) ==
    IF s = <<>> THEN <<cur>>
    ELSE IF Head(s) = c THEN <<cur>> \o SplitFrom(Tail(s), c, <<>>)
    ELSE SplitFrom(Tail(s), c, Append(cur, Head(s)))

Split(s, c) == SplitFrom(s, c, <<>>)

\* s[:-n] for n > 0
DropLast(s, n) == IF Len(s) <= n THEN <<>> ELSE SubSeq(s, 1, Len(s) - n)

Min(a, b) == IF a <= b THEN a ELSE b

\* lst[a:b] for 0 <= a <= b
Slice(lst, a, b) == SubSeq(lst, a + 1, Min(b, Len(lst)))

\* math.ceil(n / d) for n >= 0, d > 0
Ceil(n, d) == (n + d - 1) \div d

(***************************************************************************)
(* Outcomes: a call either returns a value or raises an exception.         *)
(***************************************************************************)
Ok(v) == [exc |-> "none", val |-> v]

Raise(e, v) == [exc |-> e, val |-> v]

(***************************************************************************)
(* read_zst_file_streaming: what one yielded line looks like.              *)
(***************************************************************************)
\* line.rstrip("\n\r")
YieldedLine(line) == RStripSet(line, {"\n", "\r"})

(***************************************************************************)
(* parse_moves                                                             *)
(***************************************************************************)
\* moves_pre[:-5]: the number of trailing characters cut off
ResultTrim == 5

\* one iteration of the loop over moves_pre.split("}")
MovePair(line) ==
    LET stripped == Strip(line)
        round    == Split(stripped, ".")[1]
        words    == Split(stripped, " ")
    IN  IF Len(words) < 2
        THEN Raise("IndexError", <<>>)
        ELSE Ok(<<round, words[2]>>)

RECURSIVE MovePairs(_)
MovePairs(pieces) ==
    IF pieces = <<>> THEN Ok(<<>>)
    ELSE LET first == MovePair(Head(pieces))
         IN  IF first.exc # "none" THEN first
             ELSE LET rest == MovePairs(Tail(pieces))
                  IN  IF rest.exc # "none" THEN rest
                      ELSE Ok(<<first.val>> \o rest.val)

parse_moves(moves_pre) ==
    MovePairs(Split(Strip(DropLast(moves_pre, ResultTrim)), "}"))

(***************************************************************************)
(* parse_pgn_game: one iteration of its loop.                              *)
(***************************************************************************)
\* the number of lines the loop takes per game
GameLines == 20
\* the positions the fields are read from
ResultIdx == 6
WhiteEloIdx == 9
BlackEloIdx == 10
OpeningIdx == 14
MovesIdx == 18

\* a wrong count of games: the quotient plus one instead of the ceiling
NumGamesQuotientPlusOne(n) == n \div GameLines + 1

\* range(math.ceil(len(lines) / 20))
NumGames(n) == Ceil(n, GameLines)

\* lines[i * 20 : (i + 1) * 20] with the brackets removed from every line
CurrentLine(ls, k) ==
    LET chunk == Slice(ls, k * GameLines, (k + 1) * GameLines)
    IN  [j \in 1..Len(chunk) |-> RemoveAll(RemoveAll(chunk[j], "["), "]")]

\* current_line[idx].removeprefix(prefix).replace('"', "").strip()
Field(current_line, idx, prefix) ==
    Strip(RemoveAll(RemovePrefix(current_line[idx + 1], prefix), "\""))

pResult == <<"R", "e", "s", "u", "l", "t", " ">>
pWhiteElo == <<"W", "h", "i", "t", "e", "E", "l", "o", " ">>
pBlackElo == <<"B", "l", "a", "c", "k", "E", "l", "o", " ">>
pOpening == <<"O", "p", "e", "n", "i", "n", "g", " ">>

\* the body of the loop for index k: the record appended, or the IndexError
\* of the first subscript beyond the slice
CurrentGameData(ls, k) ==
    LET current_line == CurrentLine(ls, k)
        n == Len(current_line)
    IN  IF \E idx \in {ResultIdx, WhiteEloIdx, BlackEloIdx, OpeningIdx, MovesIdx} :
               idx >= n
        THEN Raise("IndexError", <<>>)
        ELSE LET moves == parse_moves(current_line[MovesIdx + 1])
             IN  IF moves.exc # "none" THEN Raise(moves.exc, <<>>)
                 ELSE Ok([result    |-> Field(current_line, ResultIdx, pResult),
                          white_elo |-> Field(current_line, WhiteEloIdx, pWhiteElo),
                          black_elo |-> Field(current_line, BlackEloIdx, pBlackElo),
                          opening   |-> Field(current_line, OpeningIdx, pOpening),
                          moves     |-> moves.val])

(***************************************************************************)
(* filter_games_by_rating                                                  *)
(***************************************************************************)
\* Python's None as a dictionary value
NoneValue == <<"None">>

Digits == {"0", "1", "2", "3", "4", "5", "6", "7", "8", "9"}

DigitVal(c) ==
    CASE c = "0" -> 0 [] c = "1" -> 1 [] c = "2" -> 2 [] c = "3" -> 3
      [] c = "4" -> 4 [] c = "5" -> 5 [] c = "6" -> 6 [] c = "7" -> 7
      [] c = "8" -> 8 [] c = "9" -> 9

RECURSIVE DecimalVal(_, _)
DecimalVal(s, acc) ==
    IF s = <<>> THEN acc ELSE DecimalVal(Tail(s), 10 * acc + DigitVal(Head(s)))

\* int(v) for a str or None: surrounding whitespace and one sign are accepted
py_int(v) ==
    IF v = NoneValue THEN Raise("TypeError", 0)
    ELSE LET s      == Strip(v)
             signed == s # <<>> /\ Head(s) \in {"+", "-"}
             body   == IF signed THEN Tail(s) ELSE s
         IN  IF body = <<>> \/ \E j \in 1..Len(body) : body[j] \notin Digits
             THEN Raise("ValueError", 0)
             ELSE Ok(IF signed /\ Head(s) = "-"
                     THEN 0 - DecimalVal(body, 0)
                     ELSE DecimalVal(body, 0))

\* dict.get(key, default)
DictGet(d, key, default) == IF key \in DOMAIN d THEN d[key] ELSE default

\* a handler that forgets TypeError
CaughtValueErrorOnly == {"ValueError"}

\* except (ValueError, TypeError)
CaughtExceptions == {"ValueError", "TypeError"}

filter_games_by_rating(record, min_rating) ==
    LET white_elo == py_int(DictGet(record, "WhiteElo", <<"0">>))
        black_elo == py_int(DictGet(record, "BlackElo", <<"0">>))
        exc == IF white_elo.exc # "none" THEN white_elo.exc ELSE black_elo.exc
    IN  IF exc = "none"
        THEN Ok(white_elo.val >= min_rating /\ black_elo.val >= min_rating)
        ELSE IF exc \in CaughtExceptions THEN Ok(FALSE)
        ELSE Raise(exc, FALSE)

(***************************************************************************)
(* Inputs: archives in the layout of the Lichess export the script reads.  *)
(***************************************************************************)
kEvent == <<"E", "v", "e", "n", "t">>
kSite == <<"S", "i", "t", "e">>
kDate == <<"D", "a", "t", "e">>
kRound == <<"R", "o", "u", "n", "d">>
kWhite == <<"W", "h", "i", "t", "e">>
kBlack == <<"B", "l", "a", "c", "k">>
kResult == <<"R", "e", "s", "u", "l", "t">>
kUTCDate == <<"U", "T", "C", "D", "a", "t", "e">>
kUTCTime == <<"U", "T", "C", "T", "i", "m", "e">>
kWhiteElo == <<"W", "h", "i", "t", "e", "E", "l", "o">>
kBlackElo == <<"B", "l", "a", "c", "k", "E", "l", "o">>
kWhiteRatingDiff == <<"W", "h", "i", "t", "e", "R", "a", "t", "i", "n", "g", "D", "i", "f", "f">>
kBlackRatingDiff == <<"B", "l", "a", "c", "k", "R", "a", "t", "i", "n", "g", "D", "i", "f", "f">>
kECO == <<"E", "C", "O">>
kOpening == <<"O", "p", "e", "n", "i", "n", "g">>
kTimeControl == <<"T", "i", "m", "e", "C", "o", "n", "t", "r", "o", "l">>
kTermination == <<"T", "e", "r", "m", "i", "n", "a", "t", "i", "o", "n">>
kWhiteTitle == <<"W", "h", "i", "t", "e", "T", "i", "t", "l", "e">>

v1500 == <<"1", "5", "0", "0">>
v1400 == <<"1", "4", "0", "0">>
v1390 == <<"1", "3", "9", "0">>
vWhiteWin == <<"1", "-", "0">>
vBlackWin == <<"0", "-", "1">>
vDraw == <<"1", "/", "2", "-", "1", "/", "2">>
vSicilian == <<"S", "i", "c", "i", "l", "i", "a", "n", " ", "D", "e", "f", "e", "n", "s", "e">>
vItalian == <<"I", "t", "a", "l", "i", "a", "n", " ", "G", "a", "m", "e">>
vOther == <<"x">>
\* the commentary the export attaches to a move
vClk == <<" ", "{", " ", "[", "%", "c", "l", "k", " ", "0", ":", "0", "2", ":", "0", "0", "]", " ", "}">>

\* a tag pair line: [Key "Value"] and the line terminator
TagLine(key, value) ==
    <<"[">> \o key \o <<" ", "\"">> \o value \o <<"\"", "]", "\n">>

BlankLine == <<"\n">>

\* 1. e4 { [%clk 0:02:00] } 1... c5 { [%clk 0:02:00] } <result>
MoveListLine(result) ==
    <<"1", ".", " ", "e", "4">> \o vClk
    \o <<" ", "1", ".", ".", ".", " ", "c", "5">> \o vClk
    \o <<" ">> \o result \o <<"\n">>

\* the tags before, between and after the ones the parser reads
TagsA == <<TagLine(kEvent, vOther), TagLine(kSite, vOther), TagLine(kDate, vOther),
           TagLine(kRound, vOther), TagLine(kWhite, vOther), TagLine(kBlack, vOther)>>
TagsB == <<TagLine(kUTCDate, vOther), TagLine(kUTCTime, vOther)>>
TagsC == <<TagLine(kWhiteRatingDiff, vOther), TagLine(kBlackRatingDiff, vOther),
           TagLine(kECO, vOther)>>
TagsD == <<TagLine(kTimeControl, vOther), TagLine(kTermination, vOther)>>

Body(result) == <<BlankLine, MoveListLine(result), BlankLine>>

\* the common record: 17 tags, blank, move list, blank
Game(result, white, black, opening) ==
    TagsA \o <<TagLine(kResult, result)>> \o TagsB
    \o <<TagLine(kWhiteElo, white), TagLine(kBlackElo, black)>> \o TagsC
    \o <<TagLine(kOpening, opening)>> \o TagsD \o Body(result)

\* the same record with the two rating tags in the other order
GameSwapped(result, white, black, opening) ==
    TagsA \o <<TagLine(kResult, result)>> \o TagsB
    \o <<TagLine(kBlackElo, black), TagLine(kWhiteElo, white)>> \o TagsC
    \o <<TagLine(kOpening, opening)>> \o TagsD \o Body(result)

\* a record with the optional WhiteTitle tag: 18 tags
GameTitled(result, white, black, opening) ==
    TagsA \o <<TagLine(kResult, result)>> \o TagsB
    \o <<TagLine(kWhiteElo, white), TagLine(kBlackElo, black)>> \o TagsC
    \o <<TagLine(kWhiteTitle, vOther), TagLine(kOpening, opening)>> \o TagsD
    \o Body(result)

\* a record with the required tags only: 4 tags
GameShort(result, white, black, opening) ==
    <<TagLine(kResult, result), TagLine(kWhiteElo, white),
      TagLine(kBlackElo, black), TagLine(kOpening, opening)>> \o Body(result)

\* a record without BlackElo: 16 tags
GameNoBlackElo(result, white, opening) ==
    TagsA \o <<TagLine(kResult, result)>> \o TagsB
    \o <<TagLine(kWhiteElo, white)>> \o TagsC
    \o <<TagLine(kOpening, opening)>> \o TagsD \o Body(result)

\* a record without BlackElo and with the optional WhiteTitle tag: 17 tags
GameNoBlackEloTitled(result, white, opening) ==
    TagsA \o <<TagLine(kResult, result)>> \o TagsB
    \o <<TagLine(kWhiteElo, white)>> \o TagsC
    \o <<TagLine(kWhiteTitle, vOther), TagLine(kOpening, opening)>> \o TagsD
    \o Body(result)

Game1 == Game(vWhiteWin, v1500, v1400, vSicilian)
Game2 == Game(vBlackWin, v1500, v1390, vItalian)

Archives ==
    { <<>>,
      Game1,
      Game1 \o Game2,
      Game1 \o GameSwapped(vBlackWin, v1500, v1390, vItalian),
      GameTitled(vWhiteWin, v1500, v1400, vSicilian) \o Game2,
      GameShort(vWhiteWin, v1500, v1400, vSicilian) \o Game2,
      GameNoBlackElo(vWhiteWin, v1500, vSicilian) \o Game2,
      GameNoBlackEloTitled(vWhiteWin, v1500, vSicilian) \o Game2,
      Game1 \o TagsA \o <<TagLine(kResult, vBlackWin)>> \o TagsB }

\* main passes max_lines = 4 * LINES_PER_GAME
LINES_PER_GAME == 20

Caps == (0..MaxCap) \cup {4 * LINES_PER_GAME}

Thresholds == {-1, 0, 1, 1390, 1400, 1401, 1500, 1501}

NoVerdict == [called |-> FALSE, record |-> <<>>, min_rating |-> 0,
              exc |-> "none", out |-> FALSE]

NoMovesCall == [called |-> FALSE, moves_pre |-> <<>>, exc |-> "none", out |-> <<>>]

(***************************************************************************)
(* The pipeline of main: the Decoder feeding parse_pgn_game.               *)
(***************************************************************************)
Init ==
    /\ archive \in Archives
    /\ max_lines \in Caps
    /\ pulled = 0
    /\ gen = "created"
    /\ lines = <<>>
    /\ pc = "list"
    /\ i = 0
    /\ game_data = <<>>
    /\ parsed_data = <<>>
    /\ verdict = NoVerdict
    /\ moves_call = NoMovesCall

\* list(lines) asks the generator for its next item: the for loop of
\* read_zst_file_streaming takes the next line from text_reader, if there is
\* one, and yields it stripped unless its index has reached max_lines; when
\* the generator ends, list() is complete and the loop of parse_pgn_game starts
DecoderNext ==
    /\ pc = "list"
    /\ IF pulled < Len(archive)
       THEN /\ pulled' = pulled + 1
            /\ IF pulled >= max_lines
               THEN /\ gen' = "finished"
                    /\ pc' = "loop"
                    /\ lines' = lines
               ELSE /\ gen' = "suspended"
                    /\ pc' = pc
                    /\ lines' = Append(lines, YieldedLine(archive[pulled + 1]))
       ELSE /\ gen' = "finished"
            /\ pc' = "loop"
            /\ UNCHANGED <<pulled, lines>>
    /\ UNCHANGED <<archive, max_lines, i, game_data, parsed_data, verdict, moves_call>>

\* one iteration of the loop of parse_pgn_game; an exception leaves
\* parse_pgn_game and main
ParseGame ==
    /\ pc = "loop"
    /\ i < NumGames(Len(lines))
    /\ LET current_game_data == CurrentGameData(lines, i)
       IN  IF current_game_data.exc = "none"
           THEN /\ game_data' = Append(game_data, current_game_data.val)
                /\ i' = i + 1
                /\ pc' = pc
           ELSE /\ pc' = "error"
                /\ UNCHANGED <<game_data, i>>
    /\ UNCHANGED <<archive, max_lines, pulled, gen, lines, parsed_data, verdict, moves_call>>

\* return game_data
ReturnGames ==
    /\ pc = "loop"
    /\ i >= NumGames(Len(lines))
    /\ parsed_data' = game_data
    /\ pc' = "done"
    /\ UNCHANGED <<archive, max_lines, pulled, gen, lines, i, game_data, verdict, moves_call>>

\* the rating filter applied to a record parse_pgn_game returned
FilterParsed ==
    /\ pc = "done"
    /\ \E k \in 1..Len(parsed_data), min_rating \in Thresholds :
          LET r == filter_games_by_rating(parsed_data[k], min_rating)
          IN  verdict' = [called |-> TRUE, record |-> parsed_data[k],
                          min_rating |-> min_rating, exc |-> r.exc, out |-> r.val]
    /\ UNCHANGED <<archive, max_lines, pulled, gen, lines, pc, i, game_data,
                   parsed_data, moves_call>>

Next == DecoderNext \/ ParseGame \/ ReturnGames \/ FilterParsed

Spec == Init /\ [][Next]_vars

(***************************************************************************)
(* parse_moves on its own: move-list lines of 1..MaxPlies marked moves.    *)
(***************************************************************************)
MoveTokens == { <<"e", "4">>, <<"N", "f", "3">>, <<"O", "-", "O">> }

ResultTokens == {vWhiteWin, vBlackWin, vDraw}

NumText(n) == << <<"1">>, <<"2">>, <<"3">>, <<"4">>, <<"5">>, <<"6">>,
                 <<"7">>, <<"8">>, <<"9">> >>[n]

\* the move number of the j-th marked move: "full" numbers every move anew
\* (1. e4 2. Nf3), "pair" shares a number between White and Black
\* (1. e4 1... c5)
RoundOf(style, j) == IF style = "full" THEN j ELSE (j + 1) \div 2

Marker(style, j) ==
    NumText(RoundOf(style, j))
    \o (IF style = "pair" /\ j % 2 = 0 THEN <<".", ".", ".">> ELSE <<".">>)

RECURSIVE MoveText(_, _, _, _)
MoveText(style, mvs, commented, j) ==
    IF j > Len(mvs) THEN <<>>
    ELSE Marker(style, j) \o <<" ">> \o mvs[j]
         \o (IF commented THEN vClk ELSE <<>>) \o <<" ">>
         \o MoveText(style, mvs, commented, j + 1)

MoveLine(style, mvs, commented, result) ==
    MoveText(style, mvs, commented, 1) \o result

MoveSeqs == UNION { [1..n -> MoveTokens] : n \in 1..MaxPlies }

MoveLines ==
    { MoveLine(style, mvs, commented, result) :
        style \in {"full", "pair"}, mvs \in MoveSeqs,
        commented \in BOOLEAN, result \in ResultTokens }

\* the program at rest, no pipeline running
Idle ==
    /\ archive = <<>>
    /\ max_lines = 0
    /\ pulled = 0
    /\ gen = "created"
    /\ lines = <<>>
    /\ pc = "idle"
    /\ i = 0
    /\ game_data = <<>>
    /\ parsed_data = <<>>

InitMoves ==
    /\ Idle
    /\ verdict = NoVerdict
    /\ moves_call \in { [called |-> FALSE, moves_pre |-> m, exc |-> "none",
                         out |-> <<>>] : m \in MoveLines }

ParseMovesCall ==
    /\ pc = "idle"
    /\ ~moves_call.called
    /\ LET r == parse_moves(moves_call.moves_pre)
       IN  moves_call' = [moves_call EXCEPT !.called = TRUE, !.exc = r.exc,
                                            !.out = r.val]
    /\ UNCHANGED <<archive, max_lines, pulled, gen, lines, pc, i, game_data,
                   parsed_data, verdict>>

SpecMoves == InitMoves /\ [][ParseMovesCall]_vars

(***************************************************************************)
(* filter_games_by_rating on its own: records whose ratings are present,   *)
(* missing, numeric or not.                                                *)
(***************************************************************************)
RatingValues ==
    {v1500, v1400, v1390, <<" ", "1", "5", "0", "0">>, <<"-", "5">>,
     <<"a", "b", "c">>, <<"?">>, <<>>, NoneValue}

FilterRecords ==
    UNION { [keys -> RatingValues] : keys \in SUBSET {"WhiteElo", "BlackElo"} }

InitFilter ==
    /\ Idle
    /\ moves_call = NoMovesCall
    /\ verdict \in { [called |-> FALSE, record |-> r, min_rating |-> m,
                      exc |-> "none", out |-> FALSE] :
                       r \in FilterRecords, m \in Thresholds }

FilterCall ==
    /\ pc = "idle"
    /\ ~verdict.called
    /\ LET r == filter_games_by_rating(verdict.record, verdict.min_rating)
       IN  verdict' = [verdict EXCEPT !.called = TRUE, !.exc = r.exc, !.out = r.val]
    /\ UNCHANGED <<archive, max_lines, pulled, gen, lines, pc, i, game_data,
                   parsed_data, moves_call>>

SpecFilter == InitFilter /\ [][FilterCall]_vars

(***************************************************************************)
(* The record structure the specification describes, used to state the     *)
(* properties: a run of tag lines, a blank line, a move-list line, a blank *)
(* line.                                                                   *)
(***************************************************************************)
IsBlank(l) == Strip(l) = <<>>

IsTagLine(l) == l # <<>> /\ Head(l) = "["

IsMoveLine(l) == ~IsBlank(l) /\ ~IsTagLine(l)

\* the key of a tag line [Key "Value"]
TagName(l) == Split(Tail(l), " ")[1]

\* the value of a tag line [Key "Value"]
TagValue(l) == Split(l, "\"")[2]

RECURSIVE TagRunEnd(_, _)
TagRunEnd(ls, p) ==
    IF p <= Len(ls) /\ IsTagLine(ls[p]) THEN TagRunEnd(ls, p + 1) ELSE p - 1

\* the blocks of a line sequence from line p on; what follows the last
\* complete record, if anything, is one incomplete block
RECURSIVE BlocksFrom(_, _)
BlocksFrom(ls, p) ==
    IF p > Len(ls) THEN <<>>
    ELSE LET q == TagRunEnd(ls, p)
             complete == /\ q >= p
                         /\ q + 3 <= Len(ls)
                         /\ IsBlank(ls[q + 1])
                         /\ IsMoveLine(ls[q + 2])
                         /\ IsBlank(ls[q + 3])
         IN  IF complete
             THEN <<[tags |-> SubSeq(ls, p, q), last |-> q + 3, complete |-> TRUE,
                     dangling |-> FALSE]>>
                  \o BlocksFrom(ls, q + 4)
             ELSE <<[tags |-> SubSeq(ls, p, q), last |-> Len(ls), complete |-> FALSE,
                     dangling |-> q >= p /\ \A j \in (q + 1)..Len(ls) : IsBlank(ls[j])]>>

Blocks(ls) == BlocksFrom(ls, 1)

HasTag(b, key) == \E j \in 1..Len(b.tags) : TagName(b.tags[j]) = key

TagOf(b, key) ==
    TagValue(b.tags[CHOOSE j \in 1..Len(b.tags) : TagName(b.tags[j]) = key])

RequiredTags == {kResult, kWhiteElo, kBlackElo, kOpening}

HasRequiredTags(b) == \A key \in RequiredTags : HasTag(b, key)

\* the fields of the record the specification expects for a block
ExpectedFields(b) ==
    [result |-> TagOf(b, kResult), white_elo |-> TagOf(b, kWhiteElo),
     black_elo |-> TagOf(b, kBlackElo), opening |-> TagOf(b, kOpening)]

FieldsOf(r) ==
    [result |-> r.result, white_elo |-> r.white_elo, black_elo |-> r.black_elo,
     opening |-> r.opening]

\* every record of the sequence is complete and holds the required tags
WellFormed(ls) ==
    \A k \in 1..Len(Blocks(ls)) : Blocks(ls)[k].complete /\ HasRequiredTags(Blocks(ls)[k])

\* complete records with the required tags, then a metadata block that no
\* move-list line follows
EndsDangling(ls) ==
    LET bs == Blocks(ls)
    IN  /\ bs # <<>>
        /\ bs[Len(bs)].dangling
        /\ \A k \in 1..(Len(bs) - 1) : HasRequiredTags(bs[k])

\* the lines the Decoder yields for the whole archive
ArchiveLines == [j \in 1..Len(archive) |-> YieldedLine(archive[j])]

IsDecimal(v) == v # <<>> /\ \A j \in 1..Len(v) : v[j] \in Digits

(***************************************************************************)
(* Properties.                                                             *)
(***************************************************************************)

\* C1: the number of lines the Decoder has pulled from the decompressed text
\* reader never exceeds max_lines.
C1_ConsumedWithinCap == pulled <= max_lines

\* C2: for a record returned by parse_pgn_game whose two ratings are
\* numbers, filter_games_by_rating returns true if and only if the white
\* rating and the black rating are both >= the threshold.
C2_FilterOnParsedRecord ==
    (/\ verdict.called
     /\ IsDecimal(verdict.record.white_elo)
     /\ IsDecimal(verdict.record.black_elo))
    => /\ verdict.exc = "none"
       /\ verdict.out = (/\ DecimalVal(verdict.record.white_elo, 0) >= verdict.min_rating
                         /\ DecimalVal(verdict.record.black_elo, 0) >= verdict.min_rating)

\* text that reads as an integer: digits, possibly signed and surrounded by
\* blanks
IsIntegerText(v) ==
    /\ v # NoneValue
    /\ \E lead \in 0..Len(v), sign \in {<<>>, <<"+">>, <<"-">>}, digits \in 1..Len(v) :
          /\ lead + Len(sign) + digits <= Len(v)
          /\ \A j \in 1..lead : v[j] \in Whitespace
          /\ SubSeq(v, lead + 1, lead + Len(sign)) = sign
          /\ \A j \in (lead + Len(sign) + 1)..(lead + Len(sign) + digits) : v[j] \in Digits
          /\ \A j \in (lead + Len(sign) + digits + 1)..Len(v) : v[j] \in Whitespace

\* a rating of the record is missing or not a number
MissingOrNonNumeric(record) ==
    \E key \in {"WhiteElo", "BlackElo"} :
        key \notin DOMAIN record \/ ~IsIntegerText(record[key])

C4_MissingTagIsNoRecord ==
    (/\ gen = "finished"
     /\ \A k \in 1..Len(Blocks(lines)) : Blocks(lines)[k].complete
     /\ \E k \in 1..Len(Blocks(lines)) : ~HasRequiredTags(Blocks(lines)[k]))
    => \A n \in 1..Len(parsed_data) :
           \E k \in 1..Len(Blocks(lines)) :
               /\ HasRequiredTags(Blocks(lines)[k])
               /\ FieldsOf(parsed_data[n]) = ExpectedFields(Blocks(lines)[k])

\* the (round, move) pairs of a line of marked moves
ExpectedPairs(style, mvs) ==
    [j \in 1..Len(mvs) |-> <<NumText(RoundOf(style, j)), mvs[j]>>]

\* C5: a move-list line without commentary, made of k marked moves and a
\* result token, parses to the k (round, move) pairs in order.
C5_PlainMoveLine ==
    \A style \in {"full", "pair"}, mvs \in MoveSeqs, result \in ResultTokens :
        (moves_call.called /\ moves_call.moves_pre = MoveLine(style, mvs, FALSE, result))
        => /\ moves_call.exc = "none"
           /\ moves_call.out = ExpectedPairs(style, mvs)

\* C6: a move-list line whose moves each carry a commentary segment, ending
\* in any result token, parses without error to one pair per move.
C6_CommentedMoveLine ==
    \A style \in {"full", "pair"}, mvs \in MoveSeqs, result \in ResultTokens :
        (moves_call.called /\ moves_call.moves_pre = MoveLine(style, mvs, TRUE, result))
        => /\ moves_call.exc = "none"
           /\ moves_call.out = ExpectedPairs(style, mvs)

\* C7: for a line sequence of well-formed records, whatever their lengths
\* and tag orders, parse_pgn_game does not fail and returns one record per
\* block, in order, with the values of that block's Result, WhiteElo,
\* BlackElo and Opening tags.
C7_RecordsByStructure ==
    (gen = "finished" /\ WellFormed(lines))
    => /\ pc # "error"
       /\ pc = "done" =>
             /\ Len(parsed_data) = Len(Blocks(lines))
             /\ \A k \in 1..Len(parsed_data) :
                   FieldsOf(parsed_data[k]) = ExpectedFields(Blocks(lines)[k])

\* C8: when the line sequence ends with a metadata block that no move-list
\* line follows, the run is not aborted and parse_pgn_game returns exactly
\* the records of the complete blocks before it.
C8_DanglingBlockSkipped ==
    (gen = "finished" /\ EndsDangling(lines))
    => /\ pc # "error"
       /\ pc = "done" =>
             /\ Len(parsed_data) = Len(Blocks(lines)) - 1
             /\ \A k \in 1..Len(parsed_data) :
                   FieldsOf(parsed_data[k]) = ExpectedFields(Blocks(lines)[k])

\* C9: given an empty line sequence, parse_pgn_game raises no error, appends
\* no record and returns the empty sequence.
C9_EmptyInput ==
    (gen = "finished" /\ lines = <<>>)
    => /\ pc \in {"loop", "done"}
       /\ game_data = <<>>
       /\ parsed_data = <<>>
       /\ pc = "loop" => ENABLED ReturnGames

\* C9 witness: parse_pgn_game has returned the empty sequence for an empty
\* line sequence.
C9_Witness ==
    /\ gen = "finished"
    /\ lines = <<>>
    /\ pc = "done"
    /\ parsed_data = <<>>

\* C10: as long as the k-th record of a well-formed archive has not been
\* produced, the Parser holds no line beyond the end of that record.
C10_LazyPull ==
    WellFormed(ArchiveLines)
    => \A k \in 1..Len(Blocks(ArchiveLines)) :
           Len(game_data) < k => Len(lines) <= Blocks(ArchiveLines)[k].last

====
